---- MODULE Spec2Model ----
(***************************************************************************)
(* TranslationService (translation_service.py): language detection and     *)
(* translation with an LLM-first strategy and a statistical / translation  *)
(* API fallback.                                                           *)
(*                                                                         *)
(* Python strings are sequences of one-character strings, so that strip(), *)
(* lower(), title(), re.sub() and slicing are computed as the code         *)
(* computes them.  A Python call is an operator that yields a result       *)
(* record: whether it raised, the value it returned, and the log of the    *)
(* invocations of external dependencies it made, in order.  try/except is  *)
(* the operator Except.                                                    *)
(***************************************************************************)
EXTENDS Naturals, Sequences, FiniteSets, TLC

VARIABLES
    use_llm,        \* self.use_llm
    openai_client,  \* self.openai_client is not None
    LANGUAGES,      \* googletrans.LANGUAGES: code -> display name
    pc,             \* "idle": no call in progress; "returned": a call has returned
    call,           \* the call: operation, arguments, behaviour of the dependencies
    ret             \* the outcome of the call

vars == <<use_llm, openai_client, LANGUAGES, pc, call, ret>>

-----------------------------------------------------------------------------
(* Bounds of the model *)

\* longest input text that is enumerated
MaxTextLen == 3

\* characters input texts are made of: a digit, whitespace, a character of
\* the number-punctuation class, a letter
TextAlphabet == {"1", " ", "-", "a"}

Texts == UNION {[1..n -> TextAlphabet] : n \in 0..MaxTextLen}

\* characters of the texts given to is_number_only_text alone: digits, every
\* kind of character its regular expression removes, a letter
NumberAlphabet == {"1", "9", " ", "\n", "-", ".", ",", "(", ")", "/", "a"}

NumberTexts == UNION {[1..n -> NumberAlphabet] : n \in 0..MaxTextLen}

-----------------------------------------------------------------------------
(* Python values *)

None == <<"None">>

EN == <<"e", "n">>
UR == <<"u", "r">>
DE == <<"d", "e">>
XX == <<"x", "x">>

\* language codes passed by callers
LangCodes == {EN, UR, DE, XX}

Lowers == <<"a", "d", "e", "n", "r", "u", "x">>
Uppers == <<"A", "D", "E", "N", "R", "U", "X">>

IsLetter(c) == \E i \in DOMAIN Lowers : c = Lowers[i] \/ c = Uppers[i]

ToLower(c) ==
    IF \E i \in DOMAIN Uppers : Uppers[i] = c
    THEN Lowers[CHOOSE i \in DOMAIN Uppers : Uppers[i] = c]
    ELSE c

ToUpper(c) ==
    IF \E i \in DOMAIN Lowers : Lowers[i] = c
    THEN Uppers[CHOOSE i \in DOMAIN Lowers : Lowers[i] = c]
    ELSE c

WhitespaceChars == {" ", "\t", "\n", "\r"}
DigitChars == {"0", "1", "2", "3", "4", "5", "6", "7", "8", "9"}

\* the character class of the regular expression [\s\-\.\,\(\)\/]
NumberPunctuation == WhitespaceChars \cup {"-", ".", ",", "(", ")", "/"}

\* str.strip()
RECURSIVE LStrip(_)
LStrip(s) ==
    IF s # <<>> /\ Head(s) \in WhitespaceChars THEN LStrip(Tail(s)) ELSE s

RECURSIVE RStrip(_)
RStrip(s) ==
    IF s # <<>> /\ s[Len(s)] \in WhitespaceChars
    THEN RStrip(SubSeq(s, 1, Len(s) - 1))
    ELSE s

Strip(s) == RStrip(LStrip(s))

\* str.lower()
Lower(s) == [i \in 1..Len(s) |-> ToLower(s[i])]

\* str.title()
Title(s) ==
    [i \in 1..Len(s) |->
        IF i = 1 \/ ~IsLetter(s[i - 1]) THEN ToUpper(s[i]) ELSE ToLower(s[i])]

\* str.isdigit()
IsDigit(s) == s # <<>> /\ \A i \in 1..Len(s) : s[i] \in DigitChars

\* truth value of an optional argument (None and '' are false)
Truthy(x) == x # None /\ x # <<>>

-----------------------------------------------------------------------------
(* Results of calls *)

\* one invocation of an external dependency
Invocation(dep, args) == [dep |-> dep, args |-> args]

Returns(v, log) == [raised |-> FALSE, val |-> v, log |-> log]
Raises(log) == [raised |-> TRUE, val |-> None, log |-> log]

\* r, evaluated after the invocations of log were made
After(log, r) == [r EXCEPT !.log = log \o r.log]

\* try: r  except Exception: handler
Except(r, handler) == IF r.raised THEN After(r.log, handler) ELSE r

\* how many times a dependency was invoked
Count(log, dep) == Cardinality({i \in DOMAIN log : log[i].dep = dep})

-----------------------------------------------------------------------------
(* Behaviour of the external dependencies during one call.  Each either    *)
(* returns a value (k = "ret"), throws (k = "throw") or, for the LLM,      *)
(* returns a response without text content (k = "nocontent").              *)

Ret(v) == [k |-> "ret", v |-> v]
Throw == [k |-> "throw", v |-> None]
NoContent == [k |-> "nocontent", v |-> None]

\* langdetect.detect(text)
DetectOutcomes == {Throw, Ret(EN), Ret(DE), Ret(UR), Ret(XX)}

\* chat.completions.create(...) answering the detection prompt
LlmDetectOutcomes ==
    {Throw, NoContent, Ret(<<" ", "U", "R", "\n">>), Ret(<<"D", "e">>), Ret(XX)}

\* chat.completions.create(...) answering a translation prompt
LlmTranslateOutcomes ==
    {Throw, NoContent, Ret(<<"\"", "a", "\"">>), Ret(<<" ", "a", "\"">>), Ret(<<"\"">>)}

\* Translator.translate(text, src, dest)
GoogleOutcomes == {Throw, Ret(<<"g">>)}

\* get_last_language_func(sender_id)
AccessorOutcomes == {Throw, Ret(None), Ret(EN), Ret(UR), Ret(XX)}

\* the mapping of googletrans (a part of it), with and without Urdu
LanguagesWithUrdu ==
    (EN :> <<"e", "n", "g", "l", "i", "s", "h">>) @@
    (DE :> <<"g", "e", "r", "m", "a", "n">>) @@
    (UR :> <<"u", "r", "d", "u">>)

LanguagesWithoutUrdu ==
    (EN :> <<"e", "n", "g", "l", "i", "s", "h">>) @@
    (DE :> <<"g", "e", "r", "m", "a", "n">>)

-----------------------------------------------------------------------------
(* TranslationService.  env is the behaviour of the dependencies during    *)
(* the call: [llm, google, detect, accessor].                              *)

\* is_number_only_text that tests text.isdigit() without removing the
\* punctuation first
is_number_only_text_nosub(text) == IsDigit(text) /\ Len(text) > 0

\* is_number_only_text: re.sub(r'[\s\-\.\,\(\)\/]+', '', text), then
\* clean_text.isdigit() and len(clean_text) > 0
is_number_only_text(text) ==
    LET clean_text == SelectSeq(text, LAMBDA c : c \notin NumberPunctuation)
    IN  IsDigit(clean_text) /\ Len(clean_text) > 0

UrduName ==
    <<"U", "r", "d", "u", "/", "R", "o", "m", "a", "n", " ", "U", "r", "d", "u">>

get_language_name(lang_code) ==
    IF lang_code = UR THEN UrduName
    ELSE IF lang_code \in DOMAIN LANGUAGES THEN LANGUAGES[lang_code]
    ELSE Title(lang_code)

\* the try block of fallback_detection
fallback_detection_try(text, env) ==
    LET log == <<Invocation("detect", <<text>>)>>
    IN  IF env.detect.k # "ret" THEN Raises(log)
        ELSE LET detected == env.detect.v
             IN  IF detected \in DOMAIN LANGUAGES THEN Returns(detected, log)
                 ELSE Returns(EN, log)

fallback_detection(text, env) ==
    Except(fallback_detection_try(text, env), Returns(EN, <<>>))

\* detect_language_with_llm that returns the reply without validating it
detect_language_with_llm_try_novalidate(text, env) ==
    LET log == <<Invocation("llm", <<<<"detect">>, text>>)>>
    IN  IF env.llm.k # "ret" THEN Raises(log)
        ELSE Returns(Lower(Strip(env.llm.v)), log)

\* the try block of detect_language_with_llm; reading the content of a
\* response that has none raises inside the block
detect_language_with_llm_try(text, env) ==
    LET log == <<Invocation("llm", <<<<"detect">>, text>>)>>
    IN  IF env.llm.k # "ret" THEN Raises(log)
        ELSE LET detected_lang == Lower(Strip(env.llm.v))
             IN  IF detected_lang \in DOMAIN LANGUAGES \/ detected_lang = UR
                 THEN Returns(detected_lang, log)
                 ELSE After(log, fallback_detection(text, env))

detect_language_with_llm(text, env) ==
    IF ~use_llm \/ ~openai_client THEN fallback_detection(text, env)
    ELSE Except(detect_language_with_llm_try(text, env),
                fallback_detection(text, env))

\* the try block of translate_with_google
translate_with_google_try(text, source_lang, target_lang, env) ==
    LET log == <<Invocation("google", <<text, source_lang, target_lang>>)>>
    IN  IF env.google.k # "ret" THEN Raises(log)
        ELSE Returns(env.google.v, log)

\* translate_with_google without its try/except
translate_with_google_unguarded(text, source_lang, target_lang, env) ==
    translate_with_google_try(text, source_lang, target_lang, env)

\* translate_with_google whose except branch returns '' instead of text
translate_with_google_empty(text, source_lang, target_lang, env) ==
    Except(translate_with_google_try(text, source_lang, target_lang, env),
           Returns(<<>>, <<>>))

translate_with_google(text, source_lang, target_lang, env) ==
    Except(translate_with_google_try(text, source_lang, target_lang, env),
           Returns(text, <<>>))

\* which of the three prompts translate_with_llm builds
PromptTemplate(source_lang, target_lang) ==
    IF source_lang = UR /\ target_lang = EN THEN <<"ur_to_en">>
    ELSE IF source_lang = EN /\ target_lang = UR THEN <<"en_to_ur">>
    ELSE <<"generic">>

\* if translated.startswith('"') and translated.endswith('"'):
\*     translated = translated[1:-1]
StripQuotes(translated) ==
    IF translated # <<>> /\ Head(translated) = "\""
                         /\ translated[Len(translated)] = "\""
    THEN SubSeq(translated, 2, Len(translated) - 1)
    ELSE translated

\* the try block of translate_with_llm
translate_with_llm_try(text, source_lang, target_lang, env) ==
    LET log == <<Invocation("llm", <<PromptTemplate(source_lang, target_lang),
                                     text, source_lang, target_lang>>)>>
    IN  IF env.llm.k # "ret" THEN Raises(log)
        ELSE Returns(StripQuotes(Strip(env.llm.v)), log)

\* translate_with_llm that tries the LLM a second time before falling back
translate_with_llm_retry(text, source_lang, target_lang, env) ==
    IF ~use_llm \/ ~openai_client
    THEN translate_with_google(text, source_lang, target_lang, env)
    ELSE Except(translate_with_llm_try(text, source_lang, target_lang, env),
                Except(translate_with_llm_try(text, source_lang, target_lang, env),
                       translate_with_google(text, source_lang, target_lang, env)))

translate_with_llm(text, source_lang, target_lang, env) ==
    IF ~use_llm \/ ~openai_client
    THEN translate_with_google(text, source_lang, target_lang, env)
    ELSE Except(translate_with_llm_try(text, source_lang, target_lang, env),
                translate_with_google(text, source_lang, target_lang, env))

\* the try block of translate_to_english
translate_to_english_try(text, source_lang, env) ==
    IF source_lang = EN THEN Returns(text, <<>>)
    ELSE IF is_number_only_text(text) THEN Returns(text, <<>>)
    ELSE IF use_llm /\ source_lang = UR
         THEN translate_with_llm(text, source_lang, EN, env)
         ELSE translate_with_google(text, source_lang, EN, env)

translate_to_english(text, source_lang, env) ==
    Except(translate_to_english_try(text, source_lang, env), Returns(text, <<>>))

\* translate_from_english without the identity for English
translate_from_english_try_nocheck(text, target_lang, env) ==
    IF use_llm /\ target_lang = UR
    THEN translate_with_llm(text, EN, target_lang, env)
    ELSE translate_with_google(text, EN, target_lang, env)

\* translate_from_english that passes source and target the wrong way round
translate_from_english_try_swapped(text, target_lang, env) ==
    IF target_lang = EN THEN Returns(text, <<>>)
    ELSE IF use_llm /\ target_lang = UR
         THEN translate_with_llm(text, target_lang, EN, env)
         ELSE translate_with_google(text, target_lang, EN, env)

\* the try block of translate_from_english
translate_from_english_try(text, target_lang, env) ==
    IF target_lang = EN THEN Returns(text, <<>>)
    ELSE IF use_llm /\ target_lang = UR
         THEN translate_with_llm(text, EN, target_lang, env)
         ELSE translate_with_google(text, EN, target_lang, env)

translate_from_english(text, target_lang, env) ==
    Except(translate_from_english_try(text, target_lang, env), Returns(text, <<>>))

\* last_lang = get_last_language_func(sender_id)
get_last_language(sender_id, env) ==
    LET log == <<Invocation("accessor", <<sender_id>>)>>
    IN  IF env.accessor.k # "ret" THEN Raises(log)
        ELSE Returns(env.accessor.v, log)

\* what detect_language_smart does after its two heuristics
DetectAndValidate(text, env) ==
    LET detected == IF use_llm THEN detect_language_with_llm(text, env)
                    ELSE fallback_detection(text, env)
    IN  IF detected.raised THEN detected
        ELSE IF detected.val \in DOMAIN LANGUAGES \/ detected.val = UR
             THEN detected
             ELSE Returns(EN, detected.log)

\* detect_language_smart that measures len(text) instead of len(text.strip())
detect_language_smart_try_nostrip(text, sender_id, get_last_language_func, env) ==
    IF Len(text) < 3
    THEN IF Truthy(sender_id) /\ Truthy(get_last_language_func)
         THEN LET last_lang == get_last_language(sender_id, env)
              IN  IF last_lang.raised THEN last_lang
                  ELSE IF last_lang.val # EN THEN last_lang
                  ELSE Returns(EN, last_lang.log)
         ELSE Returns(EN, <<>>)
    ELSE IF is_number_only_text(text)
    THEN IF Truthy(sender_id) /\ Truthy(get_last_language_func)
         THEN get_last_language(sender_id, env)
         ELSE Returns(EN, <<>>)
    ELSE DetectAndValidate(text, env)

\* detect_language_smart without the number-only branch
detect_language_smart_try_nonumber(text, sender_id, get_last_language_func, env) ==
    IF Len(Strip(text)) < 3
    THEN IF Truthy(sender_id) /\ Truthy(get_last_language_func)
         THEN LET last_lang == get_last_language(sender_id, env)
              IN  IF last_lang.raised THEN last_lang
                  ELSE IF last_lang.val # EN THEN last_lang
                  ELSE Returns(EN, last_lang.log)
         ELSE Returns(EN, <<>>)
    ELSE DetectAndValidate(text, env)

\* the try block of detect_language_smart
detect_language_smart_try(text, sender_id, get_last_language_func, env) ==
    IF Len(Strip(text)) < 3
    THEN IF Truthy(sender_id) /\ Truthy(get_last_language_func)
         THEN LET last_lang == get_last_language(sender_id, env)
              IN  IF last_lang.raised THEN last_lang
                  ELSE IF last_lang.val # EN THEN last_lang
                  ELSE Returns(EN, last_lang.log)
         ELSE Returns(EN, <<>>)
    ELSE IF is_number_only_text(text)
    THEN IF Truthy(sender_id) /\ Truthy(get_last_language_func)
         THEN get_last_language(sender_id, env)
         ELSE Returns(EN, <<>>)
    ELSE DetectAndValidate(text, env)

detect_language_smart(text, sender_id, get_last_language_func, env) ==
    Except(detect_language_smart_try(text, sender_id, get_last_language_func, env),
           Returns(EN, <<>>))

\* detect_language: backward compatibility
detect_language(text, env) == detect_language_smart(text, None, None, env)

-----------------------------------------------------------------------------
(* The service as a state machine: it is constructed once, and then serves *)
(* one call at a time; every call is independent of the calls before it.   *)

\* a supplied accessor function
Func == <<"func">>

SenderIds == {None, <<>>, <<"u", "1">>}

\* without a client there is no LLM whose behaviour could vary
LlmEnv(outcomes) == IF use_llm THEN outcomes ELSE {Throw}

\* the accessor behaves only when one is supplied
AccessorEnv(get_last_language_func) ==
    IF Truthy(get_last_language_func) THEN AccessorOutcomes ELSE {Throw}

Env(l, g, d, a) == [llm |-> l, google |-> g, detect |-> d, accessor |-> a]

Call(op, text, source_lang, target_lang, env) ==
    [op |-> op, text |-> text, source_lang |-> source_lang,
     target_lang |-> target_lang, sender_id |-> None,
     get_last_language_func |-> None, env |-> env]

NoCall == Call("none", None, None, None, Env(Throw, Throw, Throw, Throw))
NoRet == Returns(None, <<>>)

\* __init__: the client exists iff the API key (and the package) is there
Init ==
    /\ use_llm \in BOOLEAN
    /\ openai_client = use_llm
    /\ LANGUAGES \in {LanguagesWithUrdu, LanguagesWithoutUrdu}
    /\ pc = "idle"
    /\ call = NoCall
    /\ ret = NoRet

config == <<use_llm, openai_client, LANGUAGES>>

DetectLanguageSmart ==
    /\ pc = "idle"
    /\ \E text \in Texts, sender_id \in SenderIds,
          get_last_language_func \in {None, Func} :
        \E l \in LlmEnv(LlmDetectOutcomes), d \in DetectOutcomes,
           a \in AccessorEnv(get_last_language_func) :
            LET env == Env(l, Throw, d, a)
            IN  /\ call' = [Call("detect_language_smart", text, None, None, env)
                               EXCEPT !.sender_id = sender_id,
                                      !.get_last_language_func = get_last_language_func]
                /\ ret' = detect_language_smart(text, sender_id,
                                                get_last_language_func, env)
    /\ pc' = "returned"
    /\ UNCHANGED config

DetectLanguage ==
    /\ pc = "idle"
    /\ \E text \in Texts, l \in LlmEnv(LlmDetectOutcomes), d \in DetectOutcomes :
        LET env == Env(l, Throw, d, Throw)
        IN  /\ call' = Call("detect_language", text, None, None, env)
            /\ ret' = detect_language(text, env)
    /\ pc' = "returned"
    /\ UNCHANGED config

DetectLanguageWithLlm ==
    /\ pc = "idle"
    /\ \E text \in Texts, l \in LlmEnv(LlmDetectOutcomes), d \in DetectOutcomes :
        LET env == Env(l, Throw, d, Throw)
        IN  /\ call' = Call("detect_language_with_llm", text, None, None, env)
            /\ ret' = detect_language_with_llm(text, env)
    /\ pc' = "returned"
    /\ UNCHANGED config

FallbackDetection ==
    /\ pc = "idle"
    /\ \E text \in Texts, d \in DetectOutcomes :
        LET env == Env(Throw, Throw, d, Throw)
        IN  /\ call' = Call("fallback_detection", text, None, None, env)
            /\ ret' = fallback_detection(text, env)
    /\ pc' = "returned"
    /\ UNCHANGED config

TranslateToEnglish ==
    /\ pc = "idle"
    /\ \E text \in Texts, source_lang \in LangCodes,
          l \in LlmEnv(LlmTranslateOutcomes), g \in GoogleOutcomes :
        LET env == Env(l, g, Throw, Throw)
        IN  /\ call' = Call("translate_to_english", text, source_lang, None, env)
            /\ ret' = translate_to_english(text, source_lang, env)
    /\ pc' = "returned"
    /\ UNCHANGED config

TranslateFromEnglish ==
    /\ pc = "idle"
    /\ \E text \in Texts, target_lang \in LangCodes,
          l \in LlmEnv(LlmTranslateOutcomes), g \in GoogleOutcomes :
        LET env == Env(l, g, Throw, Throw)
        IN  /\ call' = Call("translate_from_english", text, None, target_lang, env)
            /\ ret' = translate_from_english(text, target_lang, env)
    /\ pc' = "returned"
    /\ UNCHANGED config

TranslateWithLlm ==
    /\ pc = "idle"
    /\ \E text \in Texts, source_lang \in LangCodes, target_lang \in LangCodes,
          l \in LlmEnv(LlmTranslateOutcomes), g \in GoogleOutcomes :
        LET env == Env(l, g, Throw, Throw)
        IN  /\ call' = Call("translate_with_llm", text, source_lang, target_lang, env)
            /\ ret' = translate_with_llm(text, source_lang, target_lang, env)
    /\ pc' = "returned"
    /\ UNCHANGED config

TranslateWithGoogle ==
    /\ pc = "idle"
    /\ \E text \in Texts, source_lang \in LangCodes, target_lang \in LangCodes,
          g \in GoogleOutcomes :
        LET env == Env(Throw, g, Throw, Throw)
        IN  /\ call' = Call("translate_with_google", text, source_lang,
                            target_lang, env)
            /\ ret' = translate_with_google(text, source_lang, target_lang, env)
    /\ pc' = "returned"
    /\ UNCHANGED config

IsNumberOnlyText ==
    /\ pc = "idle"
    /\ \E text \in NumberTexts :
        /\ call' = Call("is_number_only_text", text, None, None,
                        Env(Throw, Throw, Throw, Throw))
        /\ ret' = Returns(is_number_only_text(text), <<>>)
    /\ pc' = "returned"
    /\ UNCHANGED config

GetLanguageName ==
    /\ pc = "idle"
    /\ \E lang_code \in LangCodes :
        /\ call' = Call("get_language_name", None, lang_code, None,
                        Env(Throw, Throw, Throw, Throw))
        /\ ret' = Returns(get_language_name(lang_code), <<>>)
    /\ pc' = "returned"
    /\ UNCHANGED config

\* the caller has the result; nothing of the call is kept
Return ==
    /\ pc = "returned"
    /\ pc' = "idle"
    /\ call' = NoCall
    /\ ret' = NoRet
    /\ UNCHANGED config

Next ==
    \/ DetectLanguageSmart
    \/ DetectLanguage
    \/ DetectLanguageWithLlm
    \/ FallbackDetection
    \/ TranslateToEnglish
    \/ TranslateFromEnglish
    \/ TranslateWithLlm
    \/ TranslateWithGoogle
    \/ IsNumberOnlyText
    \/ GetLanguageName
    \/ Return

Spec == Init /\ [][Next]_vars

-----------------------------------------------------------------------------
(* Properties *)

Returned(op) == pc = "returned" /\ call.op = op

\* the sender/accessor pair is supplied
HasContext == Truthy(call.sender_id) /\ Truthy(call.get_last_language_func)

\* a detection call made without any session context
DetectWithoutContext ==
    \/ Returned("detect_language")
    \/ /\ Returned("detect_language_smart")
       /\ call.sender_id = None
       /\ call.get_last_language_func = None

ShortAfterTrim(text) == Len(Strip(text)) < 3

NonWhitespaceCount(text) ==
    Cardinality({i \in DOMAIN text : text[i] \notin WhitespaceChars})

\* digits (at least one), whitespace, hyphen, period, comma, parentheses, slash
NumericPunctuationText(text) ==
    /\ \E i \in DOMAIN text : text[i] \in DigitChars
    /\ \A i \in DOMAIN text :
          text[i] \in DigitChars \cup {" ", "\t", "\n", "\r", "-", ".", ",", "(", ")", "/"}

ValidCodes == DOMAIN LANGUAGES \cup {UR, EN}

TranslationOps ==
    {"translate_with_google", "translate_with_llm", "translate_to_english",
     "translate_from_english"}

\* C1: no public operation raises to its caller, whatever the dependencies
\* do: every call ends by returning a value.
C1_NeverRaises == pc = "returned" => ~ret.raised

\* C1 witness: the accessor threw inside detect_language_smart and the call
\* still returned.
C1_Witness ==
    /\ Returned("detect_language_smart")
    /\ Count(ret.log, "accessor") = 1
    /\ call.env.accessor.k = "throw"
    /\ ~ret.raised

\* C2 as stated: without an LLM, for every text and every language code,
\* detect_language_smart(text) = fallback_detection(text),
\* translate_to_english(text, lang) = translate_with_google(text, lang, 'en')
\* and translate_from_english(text, lang) = translate_with_google(text, 'en', lang).
C2_Original ==
    (pc = "returned" /\ ~use_llm) =>
        /\ DetectWithoutContext =>
              ret.val = fallback_detection(call.text, call.env).val
        /\ call.op = "translate_to_english" =>
              ret.val = translate_with_google(call.text, call.source_lang, EN,
                                              call.env).val
        /\ call.op = "translate_from_english" =>
              ret.val = translate_with_google(call.text, EN, call.target_lang,
                                              call.env).val

\* C2 amended: without an LLM, detect_language_smart(text) equals
\* fallback_detection(text) for every text that is neither short after
\* trimming nor number-only; translate_to_english(text, lang) equals
\* translate_with_google(text, lang, 'en') for every lang other than 'en' and
\* every text that is not number-only; translate_from_english(text, lang)
\* equals translate_with_google(text, 'en', lang) for every lang other than
\* 'en'.  The two sides also invoke the dependencies alike.
C2_FallbackEquivalence ==
    (pc = "returned" /\ ~use_llm) =>
        /\ (/\ DetectWithoutContext
            /\ ~ShortAfterTrim(call.text)
            /\ ~is_number_only_text(call.text)) =>
              ret = fallback_detection(call.text, call.env)
        /\ (/\ call.op = "translate_to_english"
            /\ call.source_lang # EN
            /\ ~is_number_only_text(call.text)) =>
              ret = translate_with_google(call.text, call.source_lang, EN, call.env)
        /\ (/\ call.op = "translate_from_english"
            /\ call.target_lang # EN) =>
              ret = translate_with_google(call.text, EN, call.target_lang, call.env)

\* C2 witness: without an LLM, translate_from_english to Urdu returned what
\* the translation API answered.
C2_Witness ==
    /\ Returned("translate_from_english")
    /\ ~use_llm
    /\ call.target_lang = UR
    /\ call.env.google.k = "ret"
    /\ ret.val = call.env.google.v
    /\ Count(ret.log, "google") = 1

\* C3 as stated: a text with fewer than 3 non-whitespace characters, detected
\* without session context, yields 'en'.
C3_Original ==
    (DetectWithoutContext /\ NonWhitespaceCount(call.text) < 3) => ret.val = EN

\* C3 amended: a text with fewer than 3 characters after trimming the
\* whitespace at its two ends, detected without session context, yields 'en',
\* whatever the detectors would answer.
C3_ShortTextIsEnglish ==
    (/\ pc = "returned"
     /\ call.op \in {"detect_language", "detect_language_smart"}
     /\ ~HasContext
     /\ ShortAfterTrim(call.text)) =>
        ret.val = EN /\ ret.log = <<>>

\* C3 witness: a short text padded with whitespace, both detectors ready to
\* answer another language, and the result is 'en'.
C3_Witness ==
    /\ Returned("detect_language_smart")
    /\ ~HasContext
    /\ call.text = <<" ", "a", " ">>
    /\ use_llm
    /\ call.env.llm = Ret(<<" ", "U", "R", "\n">>)
    /\ call.env.detect = Ret(DE)
    /\ ret.val = EN

\* C4: for a text of digits (at least one) and number punctuation,
\* is_number_only_text is true and translate_to_english returns the text
\* unchanged for every source language, and invokes no translator.
C4_NumberOnlyUntranslated ==
    (pc = "returned" /\ NumericPunctuationText(call.text)) =>
        /\ call.op = "is_number_only_text" => ret.val = TRUE
        /\ call.op = "translate_to_english" =>
              ret.val = call.text /\ ret.log = <<>>

\* C4 witness: "1-1" from Urdu with an LLM configured comes back unchanged.
C4_Witness ==
    /\ Returned("translate_to_english")
    /\ call.text = <<"1", "-", "1">>
    /\ call.source_lang = UR
    /\ use_llm
    /\ call.env.llm.k = "ret"
    /\ ret.val = call.text

\* C5: translate_to_english(t, 'en') = t and translate_from_english(t, 'en')
\* = t, with or without an LLM, and no translator is consulted.
C5_EnglishIdentity ==
    /\ (Returned("translate_to_english") /\ call.source_lang = EN) =>
          ret.val = call.text /\ ret.log = <<>>
    /\ (Returned("translate_from_english") /\ call.target_lang = EN) =>
          ret.val = call.text /\ ret.log = <<>>

\* C5 witness: translate_from_english of a word to 'en' with both
\* translators ready to answer.
C5_Witness ==
    /\ Returned("translate_from_english")
    /\ call.target_lang = EN
    /\ call.text = <<"a", "a", "a">>
    /\ use_llm
    /\ call.env.llm.k = "ret"
    /\ call.env.google.k = "ret"
    /\ ret.val = call.text

\* C6: whenever the translation API is invoked and throws, the translation
\* operation returns the caller's text unmodified.
C6_GoogleFailureReturnsText ==
    (/\ pc = "returned"
     /\ call.op \in TranslationOps
     /\ Count(ret.log, "google") > 0
     /\ call.env.google.k = "throw") =>
        ~ret.raised /\ ret.val = call.text

\* C6 witness: translate_to_english from Urdu, the LLM threw, then the
\* translation API threw.
C6_Witness ==
    /\ Returned("translate_to_english")
    /\ call.source_lang = UR
    /\ use_llm
    /\ call.env.llm.k = "throw"
    /\ call.env.google.k = "throw"
    /\ Count(ret.log, "llm") = 1
    /\ Count(ret.log, "google") = 1
    /\ ret.val = call.text

\* C7: detect_language_with_llm returns the trimmed, lower-cased reply of the
\* LLM only when it is in the mapping or 'ur'; for any other reply, a failed
\* LLM call or no LLM it returns what fallback_detection(text) returns; its
\* result is in the mapping or 'ur' or 'en'.
C7_LlmDetectionValidated ==
    Returned("detect_language_with_llm") =>
        LET normalized == Lower(Strip(call.env.llm.v))
            accepted == /\ use_llm
                        /\ call.env.llm.k = "ret"
                        /\ (normalized \in DOMAIN LANGUAGES \/ normalized = UR)
        IN  /\ accepted => ret.val = normalized /\ Count(ret.log, "detect") = 0
            /\ ~accepted =>
                  /\ ret.val = fallback_detection(call.text, call.env).val
                  /\ Count(ret.log, "detect") = 1
            /\ ret.val \in ValidCodes

\* C7 witness: the LLM answered 'xx' and the statistical detector's 'de' was
\* returned.
C7_Witness ==
    /\ Returned("detect_language_with_llm")
    /\ use_llm
    /\ call.env.llm = Ret(XX)
    /\ call.env.detect = Ret(DE)
    /\ ret.val = DE

\* C8: for a short or number-only text, detect_language_smart with a sender
\* and an accessor returns the accessor's language when it is not English and
\* 'en' otherwise; without the pair it returns 'en'; in both cases neither
\* detector is invoked.
C8_LastLanguageForShortOrNumeric ==
    (/\ Returned("detect_language_smart")
     /\ (ShortAfterTrim(call.text) \/ is_number_only_text(call.text))) =>
        /\ Count(ret.log, "llm") = 0
        /\ Count(ret.log, "detect") = 0
        /\ HasContext =>
              /\ Count(ret.log, "accessor") = 1
              /\ ret.val = IF call.env.accessor.k = "ret" /\ call.env.accessor.v # EN
                           THEN call.env.accessor.v
                           ELSE EN
        /\ ~HasContext => ret.val = EN /\ ret.log = <<>>

\* C8 witness: a number-only text that is not short, the accessor answered
\* 'ur', and 'ur' was returned while the detectors stood ready.
C8_Witness ==
    /\ Returned("detect_language_smart")
    /\ call.text = <<"1", "-", "1">>
    /\ HasContext
    /\ call.env.accessor = Ret(UR)
    /\ call.env.detect = Ret(DE)
    /\ ret.val = UR
    /\ Count(ret.log, "accessor") = 1

\* the language argument of translate_to_english / translate_from_english
OtherLanguage ==
    IF call.op = "translate_to_english" THEN call.source_lang ELSE call.target_lang

\* the LLM before the translation API, each at most once
ChainOrder(log) ==
    /\ Count(log, "llm") <= 1
    /\ Count(log, "google") <= 1
    /\ \A i, j \in DOMAIN log :
          (log[i].dep = "llm" /\ log[j].dep = "google") => i < j

\* the value the chain prefers: the reply of the LLM as the code reads it,
\* else the text of the translation API, else the input
PreferredValue(log) ==
    IF Count(log, "llm") = 1 /\ call.env.llm.k = "ret"
    THEN StripQuotes(Strip(call.env.llm.v))
    ELSE IF Count(log, "google") = 1 /\ call.env.google.k = "ret"
    THEN call.env.google.v
    ELSE call.text

\* C9 as stated: the LLM is called at most once and only for 'ur' with an LLM
\* configured; the translation API at most once and only when the LLM was not
\* selected or the LLM call threw; the value is the reply, the API's text or
\* the input, in that order.
C9_Original ==
    (pc = "returned" /\ call.op \in {"translate_to_english", "translate_from_english"}) =>
        /\ ChainOrder(ret.log)
        /\ Count(ret.log, "llm") = 1 => use_llm /\ OtherLanguage = UR
        /\ Count(ret.log, "google") = 1 =>
              Count(ret.log, "llm") = 0 \/ call.env.llm.k = "throw"
        /\ ret.val = PreferredValue(ret.log)

\* C9 amended: as stated, except that the translation API is also called
\* when the LLM call returned a response whose text could not be read (the
\* failure is then raised while reading the reply, not by the call); it is
\* never called after a reply was read.  The reply is returned trimmed and
\* stripped of one pair of wrapping quotes.
C9_TwoTierChain ==
    (pc = "returned" /\ call.op \in {"translate_to_english", "translate_from_english"}) =>
        /\ ChainOrder(ret.log)
        /\ Count(ret.log, "llm") = 1 => use_llm /\ OtherLanguage = UR
        /\ Count(ret.log, "google") = 1 =>
              Count(ret.log, "llm") = 0 \/ call.env.llm.k # "ret"
        /\ ret.val = PreferredValue(ret.log)

\* C9 witness: the LLM call threw, the translation API was called once after
\* it and its text was returned.
C9_Witness ==
    /\ Returned("translate_to_english")
    /\ call.source_lang = UR
    /\ call.env.llm.k = "throw"
    /\ call.env.google.k = "ret"
    /\ Len(ret.log) = 2
    /\ ret.log[1].dep = "llm"
    /\ ret.log[2].dep = "google"
    /\ ret.val = call.env.google.v

\* C10: every value detect_language_smart returns is a valid language code
\* (in the mapping, or 'ur', with 'en' the default), whatever the accessor
\* and the detectors do.
C10_AlwaysValidCode ==
    (pc = "returned" /\ call.op \in {"detect_language", "detect_language_smart"}) =>
        ret.val \in ValidCodes

====
